---- MODULE Spec2Model ----
(***************************************************************************)
(* Model of monkey_island_font_editor.py: the PixelEditorCanvas widget     *)
(* (pixel buffer, undo/redo history, selection, clipboard, paste session)  *)
(* and the MonkeyIslandFontEditor window that drives it.                   *)
(*                                                                         *)
(* The two objects are the variables canvas and app, records whose fields  *)
(* are the attributes of the Python objects.  Every method is an operator  *)
(* that maps the "world" w = [canvas, app, files] before the call to the   *)
(* world after it; a method that returns a value yields [w, ret].  Qt      *)
(* signals are direct connections: an emit runs the connected slot on the  *)
(* spot.  Python's None is the empty tuple << >> (both are falsy), and     *)
(* "no image" is the record NoImage.                                       *)
(***************************************************************************)
EXTENDS Integers, Sequences, FiniteSets, TLC

VARIABLES
    canvas,      \* the PixelEditorCanvas object
    app,         \* the MonkeyIslandFontEditor object
    files,       \* the workspace directory: file name -> file
    mouse_down,  \* the left button is held after a press on the canvas
    op,          \* the handler that ran last
    ret,         \* what the canvas method called by that handler returned
                 \* (TRUE for a method that returns nothing and runs to its
                 \* end; no method of the canvas raises)
    nops,        \* number of handlers run so far
    obs          \* observer: what the properties need to remember of the past

vars == <<canvas, app, files, mouse_down, op, ret, nops, obs>>

(***************************************************************************)
(* Bounds of the model                                                     *)
(***************************************************************************)
MaxOps == 5
MaxLawOps == 4
MaxHeightLoads == 2
MaxJumpOps == 3
MaxCarried == 2
MaxMismatchOps == 3

(***************************************************************************)
(* Program constants                                                       *)
(***************************************************************************)
max_history == 50
zoom_level == 20
ColorTableSize == 256
DefaultCharHeight == 8
DefaultColorIndex == 1

None == << >>

(***************************************************************************)
(* QImage, Format_Indexed8                                                 *)
(***************************************************************************)
NoImage == [loaded |-> FALSE, width |-> 0, height |-> 0, colorCount |-> 0, pix |-> << >>]

\* position of (x, y) in the row-major pixel sequence
Idx(img, x, y) == y * img.width + x + 1

InBounds(img, x, y) == 0 <= x /\ x < img.width /\ 0 <= y /\ y < img.height

pixelIndex(img, x, y) == img.pix[Idx(img, x, y)]

\* QImage::setPixel on an 8-bit image: an index outside the colour table is
\* refused (Qt warns and returns), as is a coordinate outside the image
setPixel(img, x, y, index) ==
    IF InBounds(img, x, y) /\ 0 <= index /\ index < img.colorCount
    THEN [img EXCEPT !.pix[Idx(img, x, y)] = index]
    ELSE img

\* the loops "for y in range(height): for x in range(width):
\*     pixel_data.append(self.image.pixelIndex(x, y))"
PixelData(img) == [i \in 1..(img.width * img.height) |-> img.pix[i]]

\* the loops "if idx < len(pixel_data): self.image.setPixel(x, y, pixel_data[idx])"
SetPixels(img, pixel_data) ==
    [img EXCEPT !.pix = [i \in 1..(img.width * img.height) |->
        IF i <= Len(pixel_data) /\ 0 <= pixel_data[i] /\ pixel_data[i] < img.colorCount
        THEN pixel_data[i]
        ELSE img.pix[i]]]

(***************************************************************************)
(* PixelEditorCanvas.__init__ and MonkeyIslandFontEditor.__init__          *)
(***************************************************************************)
CanvasInit ==
    [image |-> NoImage,
     original_palette |-> None,
     current_color_index |-> DefaultColorIndex,
     drawing |-> FALSE,
     char_height |-> DefaultCharHeight,
     selecting |-> FALSE,
     selection_start |-> None,
     selection_end |-> None,
     clipboard_data |-> None,
     clipboard_size |-> None,
     paste_mode |-> FALSE,
     paste_position |-> None,
     paste_dragging |-> FALSE,
     edit_mode |-> "draw",
     undo_stack |-> << >>,
     redo_stack |-> << >>]

AppInit ==
    [current_file |-> "",
     current_index |-> 0,
     undo_btn |-> FALSE,
     redo_btn |-> FALSE,
     clear_sel_btn |-> FALSE,
     commit_btn |-> FALSE,
     cancel_btn |-> FALSE,
     scroll_value |-> 0]

(***************************************************************************)
(* History                                                                 *)
(***************************************************************************)
can_undo(c) == Len(c.undo_stack) > 0

can_redo(c) == Len(c.redo_stack) > 0

\* slot of historyChanged
update_undo_redo_buttons(w) ==
    [w EXCEPT !.app.undo_btn = can_undo(w.canvas),
              !.app.redo_btn = can_redo(w.canvas)]

\* slot of selectionChanged(has_selection)
update_selection_buttons(w, has_selection) ==
    [w EXCEPT !.app.clear_sel_btn = has_selection]

\* MonkeyIslandFontEditor.jump_to_character: the value handed to
\* verticalScrollBar().setValue
app_jump_to_character(w, char_index) ==
    IF ~w.canvas.image.loaded THEN w
    ELSE [w EXCEPT !.app.scroll_value = char_index * w.canvas.char_height * zoom_level]

\* slot of characterJumped(char_index)
scroll_to_character(w, char_index) == app_jump_to_character(w, char_index)

\* mutant: the upper limit is inclusive
jump_to_character_inclusive(w, char_index) ==
    IF w.canvas.image.loaded /\ 0 <= char_index
       /\ char_index <= w.canvas.image.height \div w.canvas.char_height
    THEN [w |-> scroll_to_character(w, char_index), ret |-> TRUE]
    ELSE [w |-> w, ret |-> FALSE]

\* PixelEditorCanvas.jump_to_character; ret tells whether characterJumped
\* was emitted
jump_to_character(w, char_index) ==
    IF w.canvas.image.loaded /\ 0 <= char_index
       /\ char_index < w.canvas.image.height \div w.canvas.char_height
    THEN [w |-> scroll_to_character(w, char_index), ret |-> TRUE]
    ELSE [w |-> w, ret |-> FALSE]

\* mutant: width and height are stored the other way round
Snapshot_transposed(img, description) ==
    [pixel_data |-> PixelData(img), description |-> description,
     w |-> img.height, h |-> img.width]

Snapshot(img, description) ==
    [pixel_data |-> PixelData(img), description |-> description,
     w |-> img.width, h |-> img.height]

\* mutant: the newest entry is dropped at the bound (pop() for pop(0))
save_state_evict_newest(w, description) ==
    IF ~w.canvas.image.loaded THEN w
    ELSE LET pushed == Append(w.canvas.undo_stack, Snapshot(w.canvas.image, description))
             limited == IF Len(pushed) > max_history
                        THEN SubSeq(pushed, 1, Len(pushed) - 1) ELSE pushed
         IN update_undo_redo_buttons(
                [w EXCEPT !.canvas.undo_stack = limited,
                          !.canvas.redo_stack = << >>])

\* mutant: the redo stack is kept
save_state_keep_redo(w, description) ==
    IF ~w.canvas.image.loaded THEN w
    ELSE LET pushed == Append(w.canvas.undo_stack, Snapshot(w.canvas.image, description))
             limited == IF Len(pushed) > max_history THEN Tail(pushed) ELSE pushed
         IN update_undo_redo_buttons([w EXCEPT !.canvas.undo_stack = limited])

\* mutant: historyChanged is not emitted
save_state_no_emit(w, description) ==
    IF ~w.canvas.image.loaded THEN w
    ELSE LET pushed == Append(w.canvas.undo_stack, Snapshot(w.canvas.image, description))
             limited == IF Len(pushed) > max_history THEN Tail(pushed) ELSE pushed
         IN [w EXCEPT !.canvas.undo_stack = limited,
                      !.canvas.redo_stack = << >>]

save_state(w, description) ==
    IF ~w.canvas.image.loaded THEN w
    ELSE LET pushed == Append(w.canvas.undo_stack, Snapshot(w.canvas.image, description))
             limited == IF Len(pushed) > max_history THEN Tail(pushed) ELSE pushed
         IN update_undo_redo_buttons(
                [w EXCEPT !.canvas.undo_stack = limited,
                          !.canvas.redo_stack = << >>])

Last(s) == s[Len(s)]

Front(s) == SubSeq(s, 1, Len(s) - 1)

\* mutant: the oldest entry is restored (pop(0) for pop())
undo_oldest(w) ==
    IF ~w.canvas.image.loaded \/ w.canvas.undo_stack = << >>
    THEN [w |-> w, ret |-> FALSE]
    ELSE LET img == w.canvas.image
             entry == Head(w.canvas.undo_stack)
             w1 == [w EXCEPT !.canvas.redo_stack =
                                 Append(@, Snapshot(img, "Current")),
                             !.canvas.undo_stack = Tail(@)]
         IN IF entry.w = img.width /\ entry.h = img.height
            THEN [w |-> update_undo_redo_buttons(
                          [w1 EXCEPT !.canvas.image = SetPixels(img, entry.pixel_data)]),
                  ret |-> TRUE]
            ELSE [w |-> w1, ret |-> FALSE]

\* mutant: an entry of other dimensions is put back on the stack
undo_keep_mismatched(w) ==
    IF ~w.canvas.image.loaded \/ w.canvas.undo_stack = << >>
    THEN [w |-> w, ret |-> FALSE]
    ELSE LET img == w.canvas.image
             entry == Last(w.canvas.undo_stack)
             w1 == [w EXCEPT !.canvas.redo_stack =
                                 Append(@, Snapshot(img, "Current")),
                             !.canvas.undo_stack = Front(@)]
         IN IF entry.w = img.width /\ entry.h = img.height
            THEN [w |-> update_undo_redo_buttons(
                          [w1 EXCEPT !.canvas.image = SetPixels(img, entry.pixel_data)]),
                  ret |-> TRUE]
            ELSE [w |-> w, ret |-> FALSE]

\* mutant: the current buffer is not kept for redo
undo_forget_current(w) ==
    IF ~w.canvas.image.loaded \/ w.canvas.undo_stack = << >>
    THEN [w |-> w, ret |-> FALSE]
    ELSE LET img == w.canvas.image
             entry == Last(w.canvas.undo_stack)
             w1 == [w EXCEPT !.canvas.undo_stack = Front(@)]
         IN IF entry.w = img.width /\ entry.h = img.height
            THEN [w |-> update_undo_redo_buttons(
                          [w1 EXCEPT !.canvas.image = SetPixels(img, entry.pixel_data)]),
                  ret |-> TRUE]
            ELSE [w |-> w1, ret |-> FALSE]

undo(w) ==
    IF ~w.canvas.image.loaded \/ w.canvas.undo_stack = << >>
    THEN [w |-> w, ret |-> FALSE]
    ELSE LET img == w.canvas.image
             entry == Last(w.canvas.undo_stack)
             w1 == [w EXCEPT !.canvas.redo_stack =
                                 Append(@, Snapshot(img, "Current")),
                             !.canvas.undo_stack = Front(@)]
         IN IF entry.w = img.width /\ entry.h = img.height
            THEN [w |-> update_undo_redo_buttons(
                          [w1 EXCEPT !.canvas.image = SetPixels(img, entry.pixel_data)]),
                  ret |-> TRUE]
            ELSE [w |-> w1, ret |-> FALSE]

\* mutant: the current buffer is not kept for undo
redo_forget_current(w) ==
    IF ~w.canvas.image.loaded \/ w.canvas.redo_stack = << >>
    THEN [w |-> w, ret |-> FALSE]
    ELSE LET img == w.canvas.image
             entry == Last(w.canvas.redo_stack)
             w1 == [w EXCEPT !.canvas.redo_stack = Front(@)]
         IN IF entry.w = img.width /\ entry.h = img.height
            THEN [w |-> update_undo_redo_buttons(
                          [w1 EXCEPT !.canvas.image = SetPixels(img, entry.pixel_data)]),
                  ret |-> TRUE]
            ELSE [w |-> w1, ret |-> FALSE]

\* mutant: the entry that is restored stays on the redo stack
redo_keep_entry(w) ==
    IF ~w.canvas.image.loaded \/ w.canvas.redo_stack = << >>
    THEN [w |-> w, ret |-> FALSE]
    ELSE LET img == w.canvas.image
             entry == Last(w.canvas.redo_stack)
             w1 == [w EXCEPT !.canvas.undo_stack =
                                 Append(@, Snapshot(img, "Current"))]
         IN IF entry.w = img.width /\ entry.h = img.height
            THEN [w |-> update_undo_redo_buttons(
                          [w1 EXCEPT !.canvas.image = SetPixels(img, entry.pixel_data)]),
                  ret |-> TRUE]
            ELSE [w |-> w1, ret |-> FALSE]

redo(w) ==
    IF ~w.canvas.image.loaded \/ w.canvas.redo_stack = << >>
    THEN [w |-> w, ret |-> FALSE]
    ELSE LET img == w.canvas.image
             entry == Last(w.canvas.redo_stack)
             w1 == [w EXCEPT !.canvas.undo_stack =
                                 Append(@, Snapshot(img, "Current")),
                             !.canvas.redo_stack = Front(@)]
         IN IF entry.w = img.width /\ entry.h = img.height
            THEN [w |-> update_undo_redo_buttons(
                          [w1 EXCEPT !.canvas.image = SetPixels(img, entry.pixel_data)]),
                  ret |-> TRUE]
            ELSE [w |-> w1, ret |-> FALSE]

(***************************************************************************)
(* Loading                                                                 *)
(***************************************************************************)
\* mutant: the fallback is clamped to 1
DetectCharHeight_clamp1(height) ==
    IF height = 2048 THEN 8
    ELSE IF height = 2259 THEN 9
    ELSE IF height = 3390 THEN 15
    ELSE IF height = 3584 THEN 14
    ELSE IF height \div 256 < 1 THEN 1 ELSE height \div 256

\* "Auto-detect character height based on bitmap height"
DetectCharHeight(height) ==
    IF height = 2048 THEN 8
    ELSE IF height = 2259 THEN 9
    ELSE IF height = 3390 THEN 15
    ELSE IF height = 3584 THEN 14
    ELSE IF height \div 256 < 1 THEN 8 ELSE height \div 256

\* A file of the workspace as PIL opens it: kind is the PIL mode ("P" or
\* "RGB"), "bad" for a file Image.open rejects, "none" for a missing file.
\* data is what tobytes() yields once the image is in mode P (for an RGB
\* file: the indices PIL's convert('P') assigns).
NoFile == [kind |-> "none", palette |-> << >>, width |-> 0, height |-> 0, data |-> << >>]

\* pil_image.getpalette() of an image in mode P
getpalette(f) == f.palette

\* the palette PIL's convert('P') attaches (its first entries)
WebPalette == <<0, 0, 0, 51, 0, 0, 102, 0, 0, 153, 0, 0>>

\* pil_image.convert('P')
convert(f) == [f EXCEPT !.kind = "P", !.palette = WebPalette]

\* the colour table after "if self.original_palette: for i in range(256):
\* self.image.setColor(i, ...)": setColor grows the table to hold index i
ColorCountFor(palette) == IF palette # None THEN ColorTableSize ELSE 0

\* mutant: the history is not cleared
load_image_keep_history(w, f, garbage) ==
    LET palette == IF f.kind = "P" THEN getpalette(f) ELSE w.canvas.original_palette
        pil_image == IF f.kind # "P" THEN convert(f) ELSE f
        blank == [loaded |-> TRUE, width |-> pil_image.width, height |-> pil_image.height,
                  colorCount |-> ColorCountFor(palette), pix |-> garbage]
    IN update_undo_redo_buttons(
        [w EXCEPT !.canvas.original_palette = palette,
                  !.canvas.char_height = DetectCharHeight(pil_image.height),
                  !.canvas.image = SetPixels(blank, pil_image.data)])

\* load_image on an opened file f.  QImage(width, height, format) leaves the
\* pixel data uninitialised: garbage is what the memory happens to hold.
load_image(w, f, garbage) ==
    LET palette == IF f.kind = "P" THEN getpalette(f) ELSE w.canvas.original_palette
        pil_image == IF f.kind # "P" THEN convert(f) ELSE f
        blank == [loaded |-> TRUE, width |-> pil_image.width, height |-> pil_image.height,
                  colorCount |-> ColorCountFor(palette), pix |-> garbage]
    IN update_undo_redo_buttons(
        [w EXCEPT !.canvas.original_palette = palette,
                  !.canvas.char_height = DetectCharHeight(pil_image.height),
                  !.canvas.image = SetPixels(blank, pil_image.data),
                  !.canvas.undo_stack = << >>,
                  !.canvas.redo_stack = << >>])

set_color(w, color_index) == [w EXCEPT !.canvas.current_color_index = color_index]

\* one button per entry of the colour table; the second one is selected
update_color_buttons(w) ==
    IF ~w.canvas.image.loaded THEN w
    ELSE IF w.canvas.image.colorCount > 0 THEN set_color(w, 1) ELSE w

load_character(w, filepath, index, garbage) ==
    LET w1 == [w EXCEPT !.app.current_file = filepath, !.app.current_index = index]
        f == w.files[filepath]
    IN IF f.kind = "bad"
       THEN [w |-> w1, ret |-> FALSE]
       ELSE [w |-> update_undo_redo_buttons(
                     update_color_buttons(load_image(w1, f, garbage))),
             ret |-> TRUE]

load_bitmap_file(w, filename, index, garbage) ==
    IF w.files[filename].kind = "none"
    THEN [w |-> w, ret |-> FALSE]
    ELSE load_character(w, filename, index, garbage)

load_workspace(w, garbage) ==
    IF w.files["char0001.bmp"].kind # "none"
    THEN load_bitmap_file(w, "char0001.bmp", 1, garbage).w
    ELSE w

(***************************************************************************)
(* Drawing and the mouse                                                   *)
(***************************************************************************)
Min(a, b) == IF a <= b THEN a ELSE b

Max(a, b) == IF a >= b THEN a ELSE b

\* event.pos() // zoom_level
Cell(pos) == <<pos[1] \div zoom_level, pos[2] \div zoom_level>>

\* mutant: a position outside the buffer is drawn on the nearest cell
draw_pixel_clamp(w, pos) ==
    IF ~w.canvas.image.loaded THEN w
    ELSE LET x == Max(0, Min(Cell(pos)[1], w.canvas.image.width - 1))
             y == Max(0, Min(Cell(pos)[2], w.canvas.image.height - 1))
         IN [w EXCEPT !.canvas.image = setPixel(@, x, y, w.canvas.current_color_index)]

draw_pixel(w, pos) ==
    IF ~w.canvas.image.loaded THEN w
    ELSE LET x == Cell(pos)[1]
             y == Cell(pos)[2]
         IN IF InBounds(w.canvas.image, x, y)
            THEN [w EXCEPT !.canvas.image = setPixel(@, x, y, w.canvas.current_color_index)]
            ELSE w

\* mutant: select mode and Shift take precedence over a paste session
mousePressEvent_select_first(w, pos, shift) ==
    IF ~w.canvas.image.loaded THEN w
    ELSE IF w.canvas.edit_mode = "select" \/ shift
    THEN update_selection_buttons(
            [w EXCEPT !.canvas.selecting = TRUE,
                      !.canvas.selection_start = Cell(pos),
                      !.canvas.selection_end = Cell(pos)], TRUE)
    ELSE IF w.canvas.paste_mode
    THEN [w EXCEPT !.canvas.paste_position = Cell(pos),
                   !.canvas.paste_dragging = TRUE]
    ELSE IF w.canvas.edit_mode = "draw"
    THEN draw_pixel([save_state(w, "Draw") EXCEPT !.canvas.drawing = TRUE], pos)
    ELSE w

\* left button; shift is the Shift modifier
mousePressEvent(w, pos, shift) ==
    IF ~w.canvas.image.loaded THEN w
    ELSE IF w.canvas.paste_mode
    THEN [w EXCEPT !.canvas.paste_position = Cell(pos),
                   !.canvas.paste_dragging = TRUE]
    ELSE IF w.canvas.edit_mode = "select" \/ shift
    THEN update_selection_buttons(
            [w EXCEPT !.canvas.selecting = TRUE,
                      !.canvas.selection_start = Cell(pos),
                      !.canvas.selection_end = Cell(pos)], TRUE)
    ELSE IF w.canvas.edit_mode = "draw"
    THEN draw_pixel([save_state(w, "Draw") EXCEPT !.canvas.drawing = TRUE], pos)
    ELSE w

mouseMoveEvent(w, pos) ==
    IF ~w.canvas.image.loaded THEN w
    ELSE IF w.canvas.selecting
    THEN [w EXCEPT !.canvas.selection_end = Cell(pos)]
    ELSE IF w.canvas.paste_dragging
    THEN [w EXCEPT !.canvas.paste_position = Cell(pos)]
    ELSE IF w.canvas.drawing
    THEN draw_pixel(w, pos)
    ELSE w

\* mutant: a release does not end the selecting
mouseReleaseEvent_keep_selecting(w) ==
    [w EXCEPT !.canvas.drawing = FALSE,
              !.canvas.paste_dragging = FALSE]

mouseReleaseEvent(w) ==
    [w EXCEPT !.canvas.drawing = FALSE,
              !.canvas.selecting = FALSE,
              !.canvas.paste_dragging = FALSE]

(***************************************************************************)
(* The character overlay of paintEvent                                     *)
(***************************************************************************)
\* num_chars = self.image.height() // self.char_height
OverlayCount(c) ==
    IF c.image.loaded /\ c.char_height > 0 THEN c.image.height \div c.char_height ELSE 0

\* first row of character char_idx (y_start / zoom_level)
CharRowStart(c, char_idx) == char_idx * c.char_height

\* mutant: the range takes in the first row of the next character
CharRowEnd_overlap(c, char_idx) == (char_idx + 1) * c.char_height + 1

\* the row after the last row of character char_idx (y_end / zoom_level)
CharRowEnd(c, char_idx) == (char_idx + 1) * c.char_height

(***************************************************************************)
(* Selection, clipboard and paste                                          *)
(***************************************************************************)
clear_selection(w) ==
    update_selection_buttons(
        [w EXCEPT !.canvas.selection_start = None,
                  !.canvas.selection_end = None], FALSE)

set_edit_mode(w, mode) ==
    IF mode \in {"draw", "select"}
    THEN LET w1 == [w EXCEPT !.canvas.edit_mode = mode]
         IN IF mode = "draw" THEN clear_selection(w1) ELSE w1
    ELSE w

\* mutant: a cell outside the buffer is copied as the current colour
copy_selection_pad_color(w) ==
    LET c == w.canvas
    IN IF ~c.image.loaded \/ c.selection_start = None \/ c.selection_end = None
       THEN [w |-> w, ret |-> FALSE]
       ELSE LET x1 == Min(c.selection_start[1], c.selection_end[1])
                y1 == Min(c.selection_start[2], c.selection_end[2])
                x2 == Max(c.selection_start[1], c.selection_end[1])
                y2 == Max(c.selection_start[2], c.selection_end[2])
                width == x2 - x1 + 1
                height == y2 - y1 + 1
                data == [k \in 1..(width * height) |->
                           LET x == x1 + ((k - 1) % width)
                               y == y1 + ((k - 1) \div width)
                           IN IF InBounds(c.image, x, y)
                              THEN pixelIndex(c.image, x, y)
                              ELSE c.current_color_index]
            IN [w |-> update_selection_buttons(
                        [w EXCEPT !.canvas.clipboard_data = data,
                                  !.canvas.clipboard_size = <<width, height>>], FALSE),
                ret |-> TRUE]

\* mutant: a cell outside the buffer is left out of the payload
copy_selection_skip_outside(w) ==
    LET c == w.canvas
    IN IF ~c.image.loaded \/ c.selection_start = None \/ c.selection_end = None
       THEN [w |-> w, ret |-> FALSE]
       ELSE LET x1 == Min(c.selection_start[1], c.selection_end[1])
                y1 == Min(c.selection_start[2], c.selection_end[2])
                x2 == Max(c.selection_start[1], c.selection_end[1])
                y2 == Max(c.selection_start[2], c.selection_end[2])
                width == x2 - x1 + 1
                height == y2 - y1 + 1
                cells == [k \in 1..(width * height) |->
                            <<x1 + ((k - 1) % width), y1 + ((k - 1) \div width)>>]
                inside == SelectSeq(cells, LAMBDA p : InBounds(c.image, p[1], p[2]))
                data == [k \in 1..Len(inside) |->
                           pixelIndex(c.image, inside[k][1], inside[k][2])]
            IN [w |-> update_selection_buttons(
                        [w EXCEPT !.canvas.clipboard_data = data,
                                  !.canvas.clipboard_size = <<width, height>>], FALSE),
                ret |-> TRUE]

copy_selection(w) ==
    LET c == w.canvas
    IN IF ~c.image.loaded \/ c.selection_start = None \/ c.selection_end = None
       THEN [w |-> w, ret |-> FALSE]
       ELSE LET x1 == Min(c.selection_start[1], c.selection_end[1])
                y1 == Min(c.selection_start[2], c.selection_end[2])
                x2 == Max(c.selection_start[1], c.selection_end[1])
                y2 == Max(c.selection_start[2], c.selection_end[2])
                width == x2 - x1 + 1
                height == y2 - y1 + 1
                data == [k \in 1..(width * height) |->
                           LET x == x1 + ((k - 1) % width)
                               y == y1 + ((k - 1) \div width)
                           IN IF InBounds(c.image, x, y)
                              THEN pixelIndex(c.image, x, y)
                              ELSE 0]
            IN [w |-> update_selection_buttons(
                        [w EXCEPT !.canvas.clipboard_data = data,
                                  !.canvas.clipboard_size = <<width, height>>], FALSE),
                ret |-> TRUE]

\* mutant: a paste session starts whatever the clipboard holds
start_paste_mode_unguarded(w) ==
    [w |-> [w EXCEPT !.canvas.paste_mode = TRUE,
                     !.canvas.paste_position = <<0, 0>>],
     ret |-> TRUE]

start_paste_mode(w) ==
    IF w.canvas.clipboard_data = None \/ w.canvas.clipboard_size = None
    THEN [w |-> w, ret |-> FALSE]
    ELSE [w |-> [w EXCEPT !.canvas.paste_mode = TRUE,
                          !.canvas.paste_position = <<0, 0>>],
          ret |-> TRUE]

\* the double loop of commit_paste: every destination cell is written at most once
PastePixels(img, data, size, position) ==
    LET px == position[1]
        py == position[2]
        cw == size[1]
        ch == size[2]
    IN [img EXCEPT !.pix = [i \in 1..(img.width * img.height) |->
          LET dx == ((i - 1) % img.width) - px
              dy == ((i - 1) \div img.width) - py
          IN IF 0 <= dx /\ dx < cw /\ 0 <= dy /\ dy < ch
                /\ dy * cw + dx < Len(data)
                /\ data[dy * cw + dx + 1] < img.colorCount
             THEN data[dy * cw + dx + 1]
             ELSE img.pix[i]]]

\* mutant: the payload is used up by the commit
commit_paste_consume(w) ==
    IF ~w.canvas.paste_mode \/ w.canvas.clipboard_data = None
       \/ w.canvas.paste_position = None
    THEN [w |-> w, ret |-> FALSE]
    ELSE LET w1 == save_state(w, "Paste")
         IN [w |-> [w1 EXCEPT !.canvas.image =
                        PastePixels(@, w.canvas.clipboard_data,
                                    w.canvas.clipboard_size, w.canvas.paste_position),
                              !.canvas.paste_mode = FALSE,
                              !.canvas.paste_position = None,
                              !.canvas.clipboard_data = None,
                              !.canvas.clipboard_size = None],
             ret |-> TRUE]

commit_paste(w) ==
    IF ~w.canvas.paste_mode \/ w.canvas.clipboard_data = None
       \/ w.canvas.paste_position = None
    THEN [w |-> w, ret |-> FALSE]
    ELSE LET w1 == save_state(w, "Paste")
         IN [w |-> [w1 EXCEPT !.canvas.image =
                        PastePixels(@, w.canvas.clipboard_data,
                                    w.canvas.clipboard_size, w.canvas.paste_position),
                              !.canvas.paste_mode = FALSE,
                              !.canvas.paste_position = None],
             ret |-> TRUE]

\* mutant: the clipboard is emptied with the session
cancel_paste_drop_clipboard(w) ==
    [w EXCEPT !.canvas.paste_mode = FALSE, !.canvas.paste_position = None,
              !.canvas.clipboard_data = None, !.canvas.clipboard_size = None]

cancel_paste(w) ==
    [w EXCEPT !.canvas.paste_mode = FALSE, !.canvas.paste_position = None]

(***************************************************************************)
(* Saving                                                                  *)
(***************************************************************************)
\* mutant: the palette is cut down to its first colour
save_image_optimized(w, output_path) ==
    IF ~w.canvas.image.loaded \/ w.canvas.original_palette = None
    THEN [w |-> w, ret |-> FALSE]
    ELSE [w |-> [w EXCEPT !.files[output_path] =
                    [kind |-> "P",
                     palette |-> SubSeq(w.canvas.original_palette, 1, 3),
                     width |-> w.canvas.image.width,
                     height |-> w.canvas.image.height,
                     data |-> PixelData(w.canvas.image)]],
          ret |-> TRUE]

\* Image.new('P', ...), putpalette(self.original_palette), putdata, save
save_image(w, output_path) ==
    IF ~w.canvas.image.loaded \/ w.canvas.original_palette = None
    THEN [w |-> w, ret |-> FALSE]
    ELSE [w |-> [w EXCEPT !.files[output_path] =
                    [kind |-> "P",
                     palette |-> w.canvas.original_palette,
                     width |-> w.canvas.image.width,
                     height |-> w.canvas.image.height,
                     data |-> PixelData(w.canvas.image)]],
          ret |-> TRUE]

(***************************************************************************)
(* MonkeyIslandFontEditor: the slots of the buttons and shortcuts          *)
(***************************************************************************)
set_mode(w, mode) == set_edit_mode(w, mode)

clear_selection_action(w) == set_mode(clear_selection(w), "select")

\* mutant: the selection is kept after the copy
app_copy_selection_keep(w) == copy_selection(w)

app_copy_selection(w) ==
    LET r == copy_selection(w)
    IN IF r.ret THEN [w |-> clear_selection(r.w), ret |-> TRUE] ELSE r

\* mutant: a session already open keeps its position
paste_selection_keep_position(w) ==
    LET r == start_paste_mode(w)
    IN IF r.ret
       THEN [w |-> [r.w EXCEPT !.app.commit_btn = TRUE, !.app.cancel_btn = TRUE,
                               !.canvas.paste_position =
                                   IF w.canvas.paste_mode THEN w.canvas.paste_position
                                   ELSE @],
             ret |-> TRUE]
       ELSE r

paste_selection(w) ==
    LET r == start_paste_mode(w)
    IN IF r.ret
       THEN [w |-> [r.w EXCEPT !.app.commit_btn = TRUE, !.app.cancel_btn = TRUE],
             ret |-> TRUE]
       ELSE r

app_commit_paste(w) ==
    LET r == commit_paste(w)
    IN IF r.ret
       THEN [w |-> update_undo_redo_buttons(
                     [r.w EXCEPT !.app.commit_btn = FALSE, !.app.cancel_btn = FALSE]),
             ret |-> TRUE]
       ELSE r

app_cancel_paste(w) ==
    [cancel_paste(w) EXCEPT !.app.commit_btn = FALSE, !.app.cancel_btn = FALSE]

undo_action(w) ==
    LET r == undo(w)
    IN IF r.ret THEN [w |-> update_undo_redo_buttons(r.w), ret |-> TRUE] ELSE r

redo_action(w) ==
    LET r == redo(w)
    IN IF r.ret THEN [w |-> update_undo_redo_buttons(r.w), ret |-> TRUE] ELSE r

save_current(w, garbage) ==
    IF w.app.current_file = "" THEN [w |-> w, ret |-> FALSE]
    ELSE LET r == save_image(w, w.app.current_file)
         IN IF r.ret
            THEN [w |-> load_workspace(r.w, garbage), ret |-> TRUE]
            ELSE r

(***************************************************************************)
(* The environment: the files of the workspace and the user's inputs       *)
(***************************************************************************)
FileNames == {"char0001.bmp", "char0002.bmp", "char0003.bmp"}

\* the index the window's file buttons pass with each name
FileIndex(filename) ==
    IF filename = "char0001.bmp" THEN 1
    ELSE IF filename = "char0002.bmp" THEN 2 ELSE 3

\* an indexed strip, 2x2, with a palette of two colours
StripA == [kind |-> "P", palette |-> <<255, 0, 255, 255, 128, 255>>,
           width |-> 2, height |-> 2, data |-> <<0, 1, 1, 0>>]

\* a true-colour strip, 2x1
StripB == [kind |-> "RGB", palette |-> << >>,
           width |-> 2, height |-> 1, data |-> <<3, 0>>]

\* an indexed strip, 1x2, with a palette of three colours
StripC == [kind |-> "P", palette |-> <<0, 0, 0, 90, 90, 90, 200, 200, 200>>,
           width |-> 1, height |-> 2, data |-> <<2, 0>>]

BadFile == [kind |-> "bad", palette |-> << >>, width |-> 0, height |-> 0, data |-> << >>]

\* a workspace with three strips
WorkspaceFull ==
    [n \in FileNames |-> IF n = "char0001.bmp" THEN StripA
                         ELSE IF n = "char0002.bmp" THEN StripB ELSE StripC]

\* a workspace without char0001.bmp, where nothing is loaded at start
WorkspaceSparse ==
    [n \in FileNames |-> IF n = "char0001.bmp" THEN NoFile
                         ELSE IF n = "char0002.bmp" THEN StripB ELSE BadFile]

FileSystems == {WorkspaceFull, WorkspaceSparse}

\* what uninitialised pixel memory may hold: two bytes, in patterns of period 2
GarbageBytes == {0, 200}

GarbageFor(f) ==
    { [i \in 1..(f.width * f.height) |-> IF i % 2 = 1 THEN a ELSE b] :
        a \in GarbageBytes, b \in GarbageBytes }

\* the colour buttons the user clicks
ColorChoices == {0, 2}

\* the character indexes asked for
JumpIndexes == {-1, 0, 2, 3, 255, 256, 265, 266}

\* a point of the widget inside cell (cx, cy)
PosOf(cx, cy) == <<cx * zoom_level + 3, cy * zoom_level + 3>>

\* the widget has the size of the image times the zoom
InsidePositions(img) ==
    {PosOf(cx, cy) : cx \in 0..(img.width - 1), cy \in 0..(img.height - 1)}

\* while the button is held the pointer may leave the widget
DragPositions(img) ==
    {PosOf(cx, cy) : cx \in (-1)..img.width, cy \in (-1)..img.height}

World == [canvas |-> canvas, app |-> app, files |-> files]

(***************************************************************************)
(* The observer.  It never influences the program: it records              *)
(*  - prev_undo, prev_redo: the sizes of the two stacks before the last    *)
(*    handler ran;                                                         *)
(*  - stroke, stroke_pre: the latest protected mutation (a draw stroke or  *)
(*    a paste commit): "open" from the press that calls save_state,        *)
(*    "complete" after the release or the commit, "undone" after an undo   *)
(*    that follows at once; stroke_pre is the buffer before it began;      *)
(*  - law: the bookkeeping of the undo/redo inverse law: n mutations that  *)
(*    called save_state since buffer pre, then k undos (post is the        *)
(*    buffer before the first one), then j redos;                          *)
(*  - warm: the number of warm-up strokes the user still makes before the  *)
(*    exploration proper (SpecDeep, SpecLaw); they are not counted in nops;*)
(*  - arg: the argument the last handler was called with (the pixel cell   *)
(*    of a mouse event, the index of a jump), None when it has none;       *)
(*  - copy_origin: the top-left corner of the rectangle last copied;       *)
(*  - prev_paste: the paste session as it was before the last handler ran. *)
(***************************************************************************)
LawOff == [phase |-> "off", n |-> 0, k |-> 0, j |-> 0, pre |-> << >>, post |-> << >>]

LawStart(w, n) ==
    [phase |-> "mutate", n |-> n, k |-> 0, j |-> 0,
     pre |-> w.canvas.image.pix, post |-> << >>]

ObsInit(law, warm) ==
    [prev_undo |-> 0, prev_redo |-> 0, stroke |-> "none", stroke_pre |-> << >>,
     law |-> law, warm |-> warm, arg |-> None, copy_origin |-> None,
     prev_paste |-> [mode |-> FALSE, position |-> None]]

\* the handler called save_state: a press that took the draw branch, or a
\* paste commit that went through
Saved(after, name, r) ==
    \/ name = "press" /\ after.canvas.drawing
    \/ name = "commit_paste" /\ r

ObserveStroke(o, before, after, name, r) ==
    IF name = "press" /\ after.canvas.drawing
    THEN [o EXCEPT !.stroke = "open", !.stroke_pre = before.canvas.image.pix]
    ELSE IF name = "commit_paste" /\ r
    THEN [o EXCEPT !.stroke = "complete", !.stroke_pre = before.canvas.image.pix]
    ELSE IF name = "load" \/ (name = "save" /\ r)
    THEN [o EXCEPT !.stroke = "none", !.stroke_pre = << >>]
    ELSE IF name = "release" /\ o.stroke = "open"
    THEN [o EXCEPT !.stroke = "complete"]
    ELSE IF name = "undo" /\ o.stroke = "complete"
    THEN [o EXCEPT !.stroke = "undone"]
    ELSE IF o.stroke = "open"
    THEN o
    ELSE [o EXCEPT !.stroke = "none", !.stroke_pre = << >>]

ObserveLaw(l, before, after, name, r) ==
    IF l.phase = "off" THEN l
    ELSE IF Saved(after, name, r) THEN [l EXCEPT !.n = @ + 1]
    ELSE IF name = "undo"
    THEN [l EXCEPT !.phase = "undo", !.k = @ + 1,
                   !.post = IF l.phase = "mutate" THEN before.canvas.image.pix ELSE @]
    ELSE IF name = "redo" THEN [l EXCEPT !.phase = "redo", !.j = @ + 1]
    ELSE l

Observe(o, before, after, name, r) ==
    [ObserveStroke(o, before, after, name, r) EXCEPT
        !.prev_undo = Len(before.canvas.undo_stack),
        !.prev_redo = Len(before.canvas.redo_stack),
        !.law = ObserveLaw(o.law, before, after, name, r),
        !.warm = IF name = "release" /\ o.warm > 0 THEN @ - 1 ELSE @,
        !.prev_paste = [mode |-> before.canvas.paste_mode,
                        position |-> before.canvas.paste_position],
        !.copy_origin =
            IF name = "copy" /\ r
            THEN <<Min(before.canvas.selection_start[1], before.canvas.selection_end[1]),
                   Min(before.canvas.selection_start[2], before.canvas.selection_end[2])>>
            ELSE @]

\* the handler named name, called with a, has run and left the world w,
\* returning r
DoArg(w, name, r, a) ==
    /\ canvas' = w.canvas
    /\ app' = w.app
    /\ files' = w.files
    /\ op' = name
    /\ ret' = r
    /\ nops' = IF obs.warm > 0 THEN nops ELSE nops + 1
    /\ obs' = [Observe(obs, World, w, name, r) EXCEPT !.arg = a]

Do(w, name, r) == DoArg(w, name, r, None)

(***************************************************************************)
(* The handlers as steps                                                   *)
(***************************************************************************)
LoadFileStep ==
    \E filename \in FileNames :
      \E garbage \in GarbageFor(files[filename]) :
        LET r == load_bitmap_file(World, filename, FileIndex(filename), garbage)
        IN Do(r.w, "load", r.ret) /\ UNCHANGED mouse_down

MousePressStep(positions, shifts) ==
    /\ ~mouse_down
    /\ canvas.image.loaded
    /\ \E pos \in positions, shift \in shifts :
         DoArg(mousePressEvent(World, pos, shift), "press", TRUE, Cell(pos))
    /\ mouse_down' = TRUE

MouseMoveStep ==
    /\ canvas.image.loaded
    /\ \E pos \in IF mouse_down THEN DragPositions(canvas.image)
                  ELSE InsidePositions(canvas.image) :
         DoArg(mouseMoveEvent(World, pos), "move", TRUE, Cell(pos))
    /\ UNCHANGED mouse_down

MouseReleaseStep ==
    /\ mouse_down
    /\ Do(mouseReleaseEvent(World), "release", TRUE)
    /\ mouse_down' = FALSE

SetColorStep ==
    /\ canvas.image.colorCount > 0
    /\ \E i \in ColorChoices : Do(set_color(World, i), "set_color", TRUE)
    /\ UNCHANGED mouse_down

SetModeStep ==
    /\ \E mode \in {"draw", "select"} : Do(set_mode(World, mode), "set_mode", TRUE)
    /\ UNCHANGED mouse_down

ClearSelectionStep ==
    /\ app.clear_sel_btn
    /\ Do(clear_selection_action(World), "clear_selection", TRUE)
    /\ UNCHANGED mouse_down

CopySelectionStep ==
    /\ LET r == app_copy_selection(World) IN Do(r.w, "copy", r.ret)
    /\ UNCHANGED mouse_down

PasteSelectionStep ==
    /\ LET r == paste_selection(World) IN Do(r.w, "paste", r.ret)
    /\ UNCHANGED mouse_down

CommitPasteStep ==
    /\ app.commit_btn
    /\ LET r == app_commit_paste(World) IN Do(r.w, "commit_paste", r.ret)
    /\ UNCHANGED mouse_down

CancelPasteStep ==
    /\ app.cancel_btn
    /\ Do(app_cancel_paste(World), "cancel_paste", TRUE)
    /\ UNCHANGED mouse_down

UndoStep ==
    /\ LET r == undo_action(World) IN Do(r.w, "undo", r.ret)
    /\ UNCHANGED mouse_down

RedoStep ==
    /\ LET r == redo_action(World) IN Do(r.w, "redo", r.ret)
    /\ UNCHANGED mouse_down

\* a call of the canvas's jump_to_character
JumpToCharacterStep ==
    /\ \E char_index \in JumpIndexes :
         LET r == jump_to_character(World, char_index)
         IN DoArg(r.w, "jump", r.ret, char_index)
    /\ UNCHANGED mouse_down

SaveCurrentStep ==
    /\ \E garbage \in GarbageFor(files["char0001.bmp"]) :
         LET r == save_current(World, garbage) IN Do(r.w, "save", r.ret)
    /\ UNCHANGED mouse_down

(***************************************************************************)
(* Spec: the editor from its construction, every handler in any order      *)
(***************************************************************************)
Constructed(fs, garbage) ==
    load_workspace([canvas |-> CanvasInit, app |-> AppInit, files |-> fs], garbage)

StartIn(w, law, warm) ==
    /\ canvas = w.canvas
    /\ app = w.app
    /\ files = w.files
    /\ mouse_down = FALSE
    /\ op = "init"
    /\ ret = TRUE
    /\ nops = 0
    /\ obs = ObsInit(law, warm)

Init ==
    \E fs \in FileSystems :
      \E garbage \in GarbageFor(fs["char0001.bmp"]) :
        StartIn(Constructed(fs, garbage), LawOff, 0)

\* the exploration proper: the warm-up is over and the budget is not used up
Free == obs.warm = 0 /\ nops < MaxOps

LoadFile == Free /\ LoadFileStep

MousePress == Free /\ MousePressStep(InsidePositions(canvas.image), BOOLEAN)

MouseMove == Free /\ MouseMoveStep

MouseRelease == Free /\ MouseReleaseStep

SetColor == Free /\ SetColorStep

SetMode == Free /\ SetModeStep

ClearSelection == Free /\ ClearSelectionStep

CopySelection == Free /\ CopySelectionStep

PasteSelection == Free /\ PasteSelectionStep

CommitPaste == Free /\ CommitPasteStep

CancelPaste == Free /\ CancelPasteStep

Undo == Free /\ UndoStep

Redo == Free /\ RedoStep

SaveCurrent == Free /\ SaveCurrentStep

Next ==
    \/ LoadFile
    \/ MousePress
    \/ MouseMove
    \/ MouseRelease
    \/ SetColor
    \/ SetMode
    \/ ClearSelection
    \/ CopySelection
    \/ PasteSelection
    \/ CommitPaste
    \/ CancelPaste
    \/ Undo
    \/ Redo
    \/ SaveCurrent

Spec == Init /\ [][Next]_vars

(***************************************************************************)
(* Long sessions.  A warm-up of max_history - 1 draw strokes on the        *)
(* top-left pixel fills the history before the exploration proper.         *)
(***************************************************************************)
\* the editor right after construction in the full workspace
FreshA == Constructed(WorkspaceFull, StripA.data)

\* ... after the user selected the top row (Shift-drag) and copied it
CopiedA ==
    app_copy_selection(
        mouseReleaseEvent(
            mouseMoveEvent(mousePressEvent(FreshA, PosOf(0, 0), TRUE), PosOf(1, 0)))).w

WarmPress == obs.warm > 0 /\ MousePressStep({PosOf(0, 0)}, {FALSE})

WarmRelease == obs.warm > 0 /\ MouseReleaseStep

(***************************************************************************)
(* SpecDeep: every handler in any order, after the warm-up                 *)
(***************************************************************************)
DeepInit == StartIn(FreshA, LawOff, max_history - 1)

DeepNext == WarmPress \/ WarmRelease \/ Next

SpecDeep == DeepInit /\ [][DeepNext]_vars

(***************************************************************************)
(* SpecLaw: the scenario of the inverse law.  Mutations (draw strokes,     *)
(* paste commits), each calling save_state, then as many undos, then as    *)
(* many redos.  The warm-up strokes are the first mutations.               *)
(***************************************************************************)
LawInit ==
    \E base \in {FreshA, CopiedA}, warm \in {0, max_history - 1} :
        StartIn(base, LawStart(base, 0), warm)

LawMutating == obs.warm = 0 /\ obs.law.phase = "mutate" /\ nops < MaxLawOps

LawPress == LawMutating /\ MousePressStep(InsidePositions(canvas.image), {FALSE})

LawMove == LawMutating /\ MouseMoveStep

LawRelease == LawMutating /\ MouseReleaseStep

LawSetColor == LawMutating /\ SetColorStep

LawPaste == LawMutating /\ PasteSelectionStep

LawCommit == LawMutating /\ CommitPasteStep

LawUndo ==
    /\ obs.warm = 0
    /\ obs.law.phase \in {"mutate", "undo"}
    /\ ~mouse_down
    /\ obs.law.j = 0
    /\ obs.law.k < obs.law.n
    /\ UndoStep

LawRedo ==
    /\ obs.warm = 0
    /\ obs.law.phase \in {"undo", "redo"}
    /\ obs.law.k = obs.law.n
    /\ obs.law.j < obs.law.n
    /\ RedoStep

LawNext ==
    \/ WarmPress
    \/ WarmRelease
    \/ LawPress
    \/ LawMove
    \/ LawRelease
    \/ LawSetColor
    \/ LawPaste
    \/ LawCommit
    \/ LawUndo
    \/ LawRedo

SpecLaw == LawInit /\ [][LawNext]_vars

(***************************************************************************)
(* C1: undo/redo inverse law.  After n mutations, each preceded by         *)
(* save_state, n consecutive undos give back the buffer as it was before   *)
(* the first mutation, and n redos after them give back the buffer as it   *)
(* was after the last one.                                                 *)
(***************************************************************************)
UndosRestore == obs.law.phase = "undo" /\ obs.law.k = obs.law.n
                    => canvas.image.pix = obs.law.pre

RedosRestore == obs.law.phase = "redo" /\ obs.law.j = obs.law.n
                    => canvas.image.pix = obs.law.post

\* C1 as stated: for any n
C1_InverseLawAnyN == UndosRestore /\ RedosRestore

\* C1 amended: the undos restore the first buffer when n <= max_history
C1_InverseLaw ==
    /\ obs.law.n <= max_history => UndosRestore
    /\ RedosRestore

C1_Witness ==
    /\ obs.law.phase = "redo"
    /\ obs.law.j = obs.law.n
    /\ obs.law.n >= 2
    /\ obs.law.n <= max_history
    /\ obs.law.pre # obs.law.post
    /\ canvas.image.pix = obs.law.post

(***************************************************************************)
(* C2: history bound.  The undo stack never holds more than max_history    *)
(* entries, and a save_state on a full stack drops the oldest entry: the   *)
(* new stack is the old one without its first entry, followed by the       *)
(* snapshot of the buffer as it was before the handler.                    *)
(***************************************************************************)
EvictsOldest ==
    Saved(World', op', ret') /\ Len(canvas.undo_stack) = max_history
        => canvas'.undo_stack =
              Append(Tail(canvas.undo_stack),
                     Snapshot(canvas.image, IF op' = "press" THEN "Draw" ELSE "Paste"))

C2_HistoryBound ==
    /\ [](Len(canvas.undo_stack) <= max_history)
    /\ [][EvictsOldest]_vars

\* a draw press on a full stack: the snapshot of the loaded strip is gone
C2_Witness ==
    /\ op = "press"
    /\ canvas.drawing
    /\ obs.prev_undo = max_history
    /\ Len(canvas.undo_stack) = max_history
    /\ canvas.undo_stack[1].pixel_data # StripA.data

(***************************************************************************)
(* C3: redo invalidation.  Whenever a handler other than undo, redo and    *)
(* the loads changes the buffer, the redo stack is empty afterwards.       *)
(***************************************************************************)
FreshMutation ==
    /\ op' \notin {"undo", "redo", "load", "save"}
    /\ canvas'.image # canvas.image

C3_RedoInvalidation == [][FreshMutation => canvas'.redo_stack = << >>]_vars

(***************************************************************************)
(* C4: palette preservation.  While a strip from an indexed file is being  *)
(* edited the stored palette is the palette of that file; only a load      *)
(* changes the stored palette; and a save writes the file with the palette *)
(* it was read with.                                                       *)
(***************************************************************************)
EditingIndexed == app.current_file # "" /\ files[app.current_file].kind = "P"

StoredIsRead ==
    canvas.image.loaded /\ EditingIndexed
        => canvas.original_palette = files[app.current_file].palette

OnlyLoadChangesPalette ==
    canvas'.original_palette # canvas.original_palette => op' \in {"load", "save"}

SaveKeepsPalette ==
    op' = "save" /\ ret' /\ EditingIndexed
        => files'[app.current_file].palette = files[app.current_file].palette

C4_PalettePreserved ==
    /\ []StoredIsRead
    /\ [][OnlyLoadChangesPalette /\ SaveKeepsPalette]_vars

\* an edited strip has been saved
C4_Witness ==
    /\ op = "save"
    /\ ret
    /\ files["char0001.bmp"].data # StripA.data
    /\ files["char0001.bmp"].palette = StripA.palette

(***************************************************************************)
(* C5: after every successful load the stored palette is the palette of    *)
(* the image just loaded, converted to indexed form if it was not.         *)
(***************************************************************************)
PaletteOfLoaded(f) == getpalette(IF f.kind # "P" THEN convert(f) ELSE f)

C5_LoadStoresPalette ==
    op = "load" /\ ret
        => canvas.original_palette = PaletteOfLoaded(files[app.current_file])

(***************************************************************************)
(* C6: history never survives a load: right after load_image both stacks   *)
(* are empty.                                                              *)
(***************************************************************************)
C6_LoadClearsHistory ==
    op = "load" /\ ret => canvas.undo_stack = << >> /\ canvas.redo_stack = << >>

\* a load with entries on both stacks
C6_Witness ==
    /\ op = "load"
    /\ ret
    /\ obs.prev_undo > 0
    /\ obs.prev_redo > 0
    /\ canvas.undo_stack = << >>
    /\ canvas.redo_stack = << >>

(***************************************************************************)
(* C7: right after load_image there is no selection, the clipboard is      *)
(* empty and no paste session is active.                                   *)
(***************************************************************************)
C7_LoadResetsSession ==
    op = "load" /\ ret
        => /\ canvas.selection_start = None
           /\ canvas.selection_end = None
           /\ canvas.clipboard_data = None
           /\ canvas.clipboard_size = None
           /\ ~canvas.paste_mode
           /\ canvas.paste_position = None

(***************************************************************************)
(* C8: every mutation is protected by save_state: the undo that follows a  *)
(* complete draw stroke or a paste commit restores the buffer as it was    *)
(* before the stroke or the commit.                                        *)
(***************************************************************************)
C8_UndoRestoresStroke ==
    obs.stroke = "undone" => canvas.image.pix = obs.stroke_pre

(***************************************************************************)
(* C9: every pixel of the buffer of an indexed strip holds an index        *)
(* smaller than the length of the palette.                                 *)
(***************************************************************************)
PaletteLength(palette) == Len(palette) \div 3

C9_IndexInPalette ==
    canvas.image.loaded /\ EditingIndexed
        => \A i \in 1..Len(canvas.image.pix) :
              canvas.image.pix[i] < PaletteLength(canvas.original_palette)

(***************************************************************************)
(* SpecCharHeight: strips of many heights are loaded                       *)
(***************************************************************************)
TableHeights == {2048, 2259, 3390, 3584}

TestHeights ==
    TableHeights \cup (1..30) \cup (250..260) \cup (510..514)
        \cup {2047, 2049, 2258, 2260, 3389, 3391, 3583, 3585, 4000}

\* an indexed strip one pixel wide
TallStrip(height) ==
    [kind |-> "P", palette |-> StripA.palette,
     width |-> 1, height |-> height, data |-> [i \in 1..height |-> 0]]

\* a workspace whose only strip is f
WorkspaceWith(f) ==
    [n \in FileNames |-> IF n = "char0002.bmp" THEN f ELSE NoFile]

WorkspaceTall(height) == WorkspaceWith(TallStrip(height))

CharHeightInit ==
    \E height \in TestHeights :
        StartIn(Constructed(WorkspaceTall(height), << >>), LawOff, 0)

HeightLoad == obs.warm = 0 /\ nops < MaxHeightLoads /\ LoadFileStep

CharHeightNext == HeightLoad

SpecCharHeight == CharHeightInit /\ [][CharHeightNext]_vars

(***************************************************************************)
(* C10: the char_height set by a load is the table value for the heights   *)
(* 2048, 2259, 3390 and 3584, and floor(height/256) for every other        *)
(* height -- clamped to a minimum of 1 (as stated), or 8 when the quotient *)
(* is below 1 (amended).                                                   *)
(***************************************************************************)
TableCharHeight(height) ==
    IF height = 2048 THEN 8
    ELSE IF height = 2259 THEN 9
    ELSE IF height = 3390 THEN 15
    ELSE 14

C10_CharHeightClamped ==
    op = "load" /\ ret
        => canvas.char_height =
              IF canvas.image.height \in TableHeights
              THEN TableCharHeight(canvas.image.height)
              ELSE Max(canvas.image.height \div 256, 1)

C10_CharHeight ==
    op = "load" /\ ret
        => canvas.char_height =
              IF canvas.image.height \in TableHeights
              THEN TableCharHeight(canvas.image.height)
              ELSE IF canvas.image.height \div 256 >= 1
                   THEN canvas.image.height \div 256
                   ELSE 8

\* a strip lower than 256 rows has been loaded
C10_Witness ==
    /\ op = "load"
    /\ ret
    /\ canvas.image.height = 24
    /\ canvas.char_height = 8

(***************************************************************************)
(* SpecJump: strips of a few heights are loaded and characters jumped to   *)
(***************************************************************************)
JumpHeights == {5, 24, 2048, 2050, 2259}

\* an indexed strip of three characters, 16x24
Strip16x24 ==
    [kind |-> "P", palette |-> StripA.palette,
     width |-> 16, height |-> 24, data |-> [i \in 1..(16 * 24) |-> i % 2]]

JumpStrips == {TallStrip(height) : height \in JumpHeights} \cup {Strip16x24}

JumpInit ==
    \E f \in JumpStrips :
        StartIn(Constructed(WorkspaceWith(f), << >>), LawOff, 0)

JumpLoad == obs.warm = 0 /\ nops < MaxJumpOps /\ LoadFileStep

JumpToCharacter == obs.warm = 0 /\ nops < MaxJumpOps /\ JumpToCharacterStep

JumpNext == JumpLoad \/ JumpToCharacter

SpecJump == JumpInit /\ [][JumpNext]_vars

(***************************************************************************)
(* C11: jump_to_character(index) emits the character jump (and the window  *)
(* scrolls to the character) exactly when a strip is loaded and            *)
(* 0 <= index < floor(height / char_height); otherwise nothing changes.    *)
(* A strip of height 2048 has 256 characters: index 255 takes effect,      *)
(* index 256 does nothing.                                                 *)
(***************************************************************************)
NumCharacters == canvas.image.height \div canvas.char_height

JumpTakesEffect ==
    op' = "jump" =>
        LET index == obs'.arg
            valid == canvas.image.loaded /\ 0 <= index /\ index < NumCharacters
        IN /\ ret' <=> valid
           /\ valid => /\ app'.scroll_value = index * canvas.char_height * zoom_level
                       /\ canvas' = canvas /\ files' = files
           /\ ~valid => World' = World
           /\ canvas.image.loaded /\ canvas.image.height = 2048
                 => /\ NumCharacters = 256
                    /\ index = 255 => ret'
                    /\ index = 256 => ~ret'

C11_JumpInRange == [][JumpTakesEffect]_vars

\* the last character of a strip of height 2048
C11_Witness ==
    /\ op = "jump"
    /\ ret
    /\ obs.arg = 255
    /\ canvas.image.height = 2048
    /\ app.scroll_value = 255 * 8 * zoom_level

(***************************************************************************)
(* C12: a copy over a selection yields a payload of width x2-x1+1 and      *)
(* height y2-y1+1 over the normalized rectangle, of length width*height,   *)
(* whose entries are, row by row, the buffer's index at each coordinate    *)
(* inside the buffer and 0 at each coordinate outside it.                  *)
(***************************************************************************)
CopyReadsRectangle ==
    op' = "copy" /\ ret' =>
        LET x1 == Min(canvas.selection_start[1], canvas.selection_end[1])
            y1 == Min(canvas.selection_start[2], canvas.selection_end[2])
            x2 == Max(canvas.selection_start[1], canvas.selection_end[1])
            y2 == Max(canvas.selection_start[2], canvas.selection_end[2])
            width == x2 - x1 + 1
            height == y2 - y1 + 1
        IN /\ canvas'.clipboard_size = <<width, height>>
           /\ Len(canvas'.clipboard_data) = width * height
           /\ \A x \in x1..x2, y \in y1..y2 :
                 canvas'.clipboard_data[(y - y1) * width + (x - x1) + 1] =
                    IF 0 <= x /\ x < canvas.image.width /\ 0 <= y /\ y < canvas.image.height
                    THEN canvas.image.pix[y * canvas.image.width + x + 1]
                    ELSE 0

C12_CopyPayload == [][CopyReadsRectangle]_vars

\* the whole 2x2 strip and the column to its right have been copied
C12_Witness ==
    /\ op = "copy"
    /\ ret
    /\ canvas.clipboard_size = <<3, 2>>
    /\ canvas.clipboard_data = <<0, 1, 0, 1, 0, 0>>

(***************************************************************************)
(* C13: copy/paste identity.  Committing a paste at the origin of the      *)
(* copied rectangle, the buffer being as it was at the copy, leaves the    *)
(* buffer as it was; committing it elsewhere makes the block at the paste  *)
(* position equal to the copied block and changes no other cell.           *)
(***************************************************************************)
\* the payload cell that lands on (x, y) when the payload is put at position
PayloadAt(data, size, position, x, y) ==
    data[(y - position[2]) * size[1] + (x - position[1]) + 1]

Covers(size, position, x, y) ==
    /\ position[1] <= x /\ x < position[1] + size[1]
    /\ position[2] <= y /\ y < position[2] + size[2]

\* the clipboard still holds what the buffer shows at the copied rectangle
ClipboardFresh ==
    /\ obs.copy_origin # None
    /\ \A x \in 0..(canvas.image.width - 1), y \in 0..(canvas.image.height - 1) :
          Covers(canvas.clipboard_size, obs.copy_origin, x, y)
            => pixelIndex(canvas.image, x, y) =
                  PayloadAt(canvas.clipboard_data, canvas.clipboard_size,
                            obs.copy_origin, x, y)

PasteAtOriginIsIdentity ==
    op' = "commit_paste" /\ ret' /\ ClipboardFresh
        /\ canvas.paste_position = obs.copy_origin
        => canvas'.image = canvas.image

PasteReproducesBlock ==
    op' = "commit_paste" /\ ret' =>
        \A x \in 0..(canvas.image.width - 1), y \in 0..(canvas.image.height - 1) :
            pixelIndex(canvas'.image, x, y) =
                IF Covers(canvas.clipboard_size, canvas.paste_position, x, y)
                THEN PayloadAt(canvas.clipboard_data, canvas.clipboard_size,
                               canvas.paste_position, x, y)
                ELSE pixelIndex(canvas.image, x, y)

C13_CopyPasteIdentity == [][PasteAtOriginIsIdentity /\ PasteReproducesBlock]_vars

(***************************************************************************)
(* C14: a copy that succeeds leaves no selection: both corners are None    *)
(* and the clear button is disabled.  Only a mouse press makes a selection *)
(* again, and until then every copy fails.                                 *)
(***************************************************************************)
NoSelectionAfterCopy ==
    op = "copy" /\ ret
        => /\ canvas.selection_start = None
           /\ canvas.selection_end = None
           /\ ~app.clear_sel_btn

CopyNeedsNewSelection ==
    /\ op' = "copy" /\ canvas.selection_start = None => ~ret'
    /\ canvas.selection_start = None /\ canvas'.selection_start # None => op' = "press"
    /\ op = "copy" /\ ret /\ op' = "copy" => ~ret'

C14_CopyClearsSelection == []NoSelectionAfterCopy /\ [][CopyNeedsNewSelection]_vars

\* a copy of a selection of two cells has succeeded
C14_Witness ==
    /\ op = "copy"
    /\ ret
    /\ canvas.clipboard_size = <<2, 1>>
    /\ canvas.selection_start = None
    /\ canvas.selection_end = None

(***************************************************************************)
(* C15: operations in an invalid state fail without side effects.  A copy  *)
(* without a selection fails and changes nothing (the clipboard and the    *)
(* buffer included); a paste with an empty clipboard fails, changes        *)
(* nothing and no paste session is active after it.                        *)
(***************************************************************************)
NoSelection == canvas.selection_start = None \/ canvas.selection_end = None

EmptyClipboard == canvas.clipboard_data = None \/ canvas.clipboard_size = None

InvalidStateFails ==
    /\ op' = "copy" /\ NoSelection => ~ret' /\ World' = World
    /\ op' = "paste" /\ EmptyClipboard
          => ~ret' /\ World' = World /\ ~canvas'.paste_mode

C15_InvalidStateNoEffect == [][InvalidStateFails]_vars

\* a copy without a selection has failed and the earlier payload is kept
C15_Witness ==
    /\ op = "copy"
    /\ ~ret
    /\ canvas.clipboard_data = <<0, 1>>
    /\ canvas.clipboard_size = <<2, 1>>

(***************************************************************************)
(* C16: a commit with a paste session active pushes a "Paste" snapshot of  *)
(* the buffer as it was before the paste (clearing the redo stack), writes *)
(* every payload cell whose destination is inside the buffer, leaves every *)
(* other cell alone and ends the session.  Without a session commit_paste  *)
(* returns False and changes nothing.                                      *)
(***************************************************************************)
CommitWithSession ==
    op' = "commit_paste" /\ canvas.paste_mode =>
        /\ ret'
        /\ canvas'.undo_stack =
              LET pushed == Append(canvas.undo_stack, Snapshot(canvas.image, "Paste"))
              IN IF Len(canvas.undo_stack) = max_history THEN Tail(pushed) ELSE pushed
        /\ canvas'.redo_stack = << >>
        /\ \A x \in 0..(canvas.image.width - 1), y \in 0..(canvas.image.height - 1) :
              pixelIndex(canvas'.image, x, y) =
                 IF Covers(canvas.clipboard_size, canvas.paste_position, x, y)
                 THEN PayloadAt(canvas.clipboard_data, canvas.clipboard_size,
                                canvas.paste_position, x, y)
                 ELSE pixelIndex(canvas.image, x, y)
        /\ ~canvas'.paste_mode
        /\ canvas'.paste_position = None

CommitWithoutSession ==
    ~canvas.paste_mode => commit_paste(World) = [w |-> World, ret |-> FALSE]

C16_CommitPaste == []CommitWithoutSession /\ [][CommitWithSession]_vars

(***************************************************************************)
(* C17: cancel_paste ends the paste session and changes neither the        *)
(* buffer, nor the clipboard, nor the undo and redo stacks; a second       *)
(* cancel, or a cancel without a session, changes nothing more.            *)
(***************************************************************************)
CancelEndsSession ==
    op' = "cancel_paste" =>
        /\ ~canvas'.paste_mode
        /\ canvas'.paste_position = None
        /\ canvas'.image = canvas.image
        /\ canvas'.clipboard_data = canvas.clipboard_data
        /\ canvas'.clipboard_size = canvas.clipboard_size
        /\ canvas'.undo_stack = canvas.undo_stack
        /\ canvas'.redo_stack = canvas.redo_stack

CancelIdempotent ==
    /\ cancel_paste(cancel_paste(World)) = cancel_paste(World)
    /\ app_cancel_paste(app_cancel_paste(World)) = app_cancel_paste(World)
    /\ op = "cancel_paste" => app_cancel_paste(World) = World
    /\ ~canvas.paste_mode /\ canvas.paste_position = None
          => cancel_paste(World) = World

C17_CancelPaste == []CancelIdempotent /\ [][CancelEndsSession]_vars

\* a session with the copied top row has been cancelled, late in a session
C17_Witness ==
    /\ op = "cancel_paste"
    /\ ~canvas.paste_mode
    /\ canvas.clipboard_data = <<1, 1>>
    /\ canvas.undo_stack # << >>
    /\ ~app.cancel_btn

(***************************************************************************)
(* C18: of the three interaction modes drawing, selecting and              *)
(* paste-dragging exactly one is active in every reachable state (as       *)
(* stated); exactly one is active while the left button is held after a    *)
(* press on a canvas with a strip loaded, and none is active otherwise     *)
(* (amended).                                                              *)
(***************************************************************************)
ActiveModes ==
    {m \in {"drawing", "selecting", "paste_dragging"} :
        \/ m = "drawing" /\ canvas.drawing
        \/ m = "selecting" /\ canvas.selecting
        \/ m = "paste_dragging" /\ canvas.paste_dragging}

\* C18 as stated
C18_ExactlyOneMode == Cardinality(ActiveModes) = 1

\* C18 amended
C18_OneModeWhilePressed ==
    /\ mouse_down => Cardinality(ActiveModes) = 1
    /\ ~mouse_down => ActiveModes = {}

\* a stroke is being drawn after a selection was copied
C18_Witness ==
    /\ ActiveModes = {"drawing"}
    /\ canvas.clipboard_data # None
    /\ mouse_down

(***************************************************************************)
(* C19: drawing at a coordinate outside [0,width) x [0,height) does not    *)
(* modify the buffer, and fails with a range error (as stated) or is       *)
(* ignored without any failure being reported (amended).                   *)
(***************************************************************************)
\* the handler that ran drew (draw_pixel) at a cell outside the buffer
OutsideDraw ==
    /\ op' = "move"
    /\ canvas.image.loaded
    /\ canvas.drawing
    /\ ~InBounds(canvas.image, obs'.arg[1], obs'.arg[2])

UndoPopsLatest ==
    op' = "undo" =>
        IF canvas.undo_stack # << >>
        THEN LET n == Len(canvas.undo_stack)
             IN /\ ret'
                /\ Len(canvas'.redo_stack) = Len(canvas.redo_stack) + 1
                /\ \A i \in 1..Len(canvas.redo_stack) :
                      canvas'.redo_stack[i] = canvas.redo_stack[i]
                /\ canvas'.redo_stack[Len(canvas'.redo_stack)].pixel_data = canvas.image.pix
                /\ Len(canvas'.undo_stack) = n - 1
                /\ \A i \in 1..(n - 1) : canvas'.undo_stack[i] = canvas.undo_stack[i]
                /\ canvas'.image.pix = canvas.undo_stack[n].pixel_data
        ELSE ~ret' /\ World' = World

C20_UndoLifo == [][UndoPopsLatest]_vars

\* the later of two different snapshots has been restored
C20_Witness ==
    /\ op = "undo"
    /\ ret
    /\ Len(canvas.undo_stack) = 1
    /\ canvas.redo_stack # << >>
    /\ canvas.image.pix # canvas.undo_stack[1].pixel_data
    /\ canvas.image.pix # Last(canvas.redo_stack).pixel_data

(***************************************************************************)
(* C21: a redo on a non-empty redo stack succeeds, pushes the buffer as it *)
(* was onto the undo stack, removes the entry pushed last from the redo    *)
(* stack and leaves the buffer equal to that entry's snapshot; a redo on   *)
(* an empty redo stack reports failure and changes nothing.                *)
(***************************************************************************)
RedoPopsLatest ==
    op' = "redo" =>
        IF canvas.redo_stack # << >>
        THEN LET n == Len(canvas.redo_stack)
             IN /\ ret'
                /\ Len(canvas'.undo_stack) = Len(canvas.undo_stack) + 1
                /\ \A i \in 1..Len(canvas.undo_stack) :
                      canvas'.undo_stack[i] = canvas.undo_stack[i]
                /\ canvas'.undo_stack[Len(canvas'.undo_stack)].pixel_data = canvas.image.pix
                /\ Len(canvas'.redo_stack) = n - 1
                /\ \A i \in 1..(n - 1) : canvas'.redo_stack[i] = canvas.redo_stack[i]
                /\ canvas'.image.pix = canvas.redo_stack[n].pixel_data
        ELSE ~ret' /\ World' = World

C21_RedoLifo == [][RedoPopsLatest]_vars

\* the later of two undone buffers has been brought back
C21_Witness ==
    /\ op = "redo"
    /\ ret
    /\ Len(canvas.redo_stack) = 1
    /\ canvas.undo_stack # << >>
    /\ canvas.image.pix # canvas.redo_stack[1].pixel_data
    /\ canvas.image.pix # Last(canvas.undo_stack).pixel_data

(***************************************************************************)
(* SpecMismatch: undo and redo on a history that holds snapshots of a      *)
(* strip of other dimensions.  The editor never builds such a history      *)
(* (C29); this specification starts from one to exercise the branch of     *)
(* undo and redo that handles it.                                          *)
(***************************************************************************)
\* snapshots of the 2x2 strip, and one of the 1x2 strip
SnapshotPool ==
    {[pixel_data |-> StripA.data, description |-> "Draw", w |-> 2, h |-> 2],
     [pixel_data |-> <<1, 1, 1, 0>>, description |-> "Paste", w |-> 2, h |-> 2],
     [pixel_data |-> StripC.data, description |-> "Draw", w |-> 1, h |-> 2]}

Histories == UNION {[1..n -> SnapshotPool] : n \in 0..MaxCarried}

MismatchInit ==
    \E u \in Histories, r \in Histories :
        StartIn(update_undo_redo_buttons(
                    [FreshA EXCEPT !.canvas.undo_stack = u, !.canvas.redo_stack = r]),
                LawOff, 0)

MismatchUndo == obs.warm = 0 /\ nops < MaxMismatchOps /\ UndoStep

MismatchRedo == obs.warm = 0 /\ nops < MaxMismatchOps /\ RedoStep

MismatchNext == MismatchUndo \/ MismatchRedo

SpecMismatch == MismatchInit /\ [][MismatchNext]_vars

(***************************************************************************)
(* C22: when undo or redo pops an entry whose width or height differs from *)
(* the buffer's, the entry is gone from its stack, the buffer is untouched *)
(* and the call returns False.                                             *)
(***************************************************************************)
Mismatched(entry) ==
    entry.w # canvas.image.width \/ entry.h # canvas.image.height

MismatchConsumes ==
    /\ op' = "undo" /\ canvas.undo_stack # << >> /\ Mismatched(Last(canvas.undo_stack))
          => /\ ~ret'
             /\ canvas'.image = canvas.image
             /\ canvas'.undo_stack = Front(canvas.undo_stack)
    /\ op' = "redo" /\ canvas.redo_stack # << >> /\ Mismatched(Last(canvas.redo_stack))
          => /\ ~ret'
             /\ canvas'.image = canvas.image
             /\ canvas'.redo_stack = Front(canvas.redo_stack)

C22_MismatchConsumed == [][MismatchConsumes]_vars

\* an undo has consumed an entry and failed, with the buffer as loaded
C22_Witness ==
    /\ op = "undo"
    /\ ~ret
    /\ Len(canvas.undo_stack) = obs.prev_undo - 1
    /\ Len(canvas.redo_stack) = obs.prev_redo + 1
    /\ canvas.image.pix = StripA.data

(***************************************************************************)
(* C23: save_state(label) puts a snapshot of the current buffer (all its   *)
(* indices, its width and its height) with the label on top of the undo    *)
(* stack and empties the redo stack, and does not change the buffer; with  *)
(* no image loaded it does nothing.                                        *)
(***************************************************************************)
\* what a call of save_state would do in this state
SaveStateEffect ==
    \A label \in {"Draw", "Paste"} :
        LET after == save_state(World, label).canvas
            top == Last(after.undo_stack)
        IN IF canvas.image.loaded
           THEN /\ top.pixel_data = canvas.image.pix
                /\ top.w = canvas.image.width
                /\ top.h = canvas.image.height
                /\ top.description = label
                /\ after.redo_stack = << >>
                /\ after = [canvas EXCEPT !.undo_stack = after.undo_stack,
                                          !.redo_stack = << >>]
           ELSE save_state(World, label) = World

\* what the handlers that call it leave behind
SaveStateCalled ==
    Saved(World', op', ret') =>
        LET top == Last(canvas'.undo_stack)
        IN /\ top.pixel_data = canvas.image.pix
           /\ top.w = canvas.image.width
           /\ top.h = canvas.image.height
           /\ top.description = IF op' = "press" THEN "Draw" ELSE "Paste"
           /\ canvas'.redo_stack = << >>

C23_SaveState == []SaveStateEffect /\ [][SaveStateCalled]_vars

\* a stroke has begun with undone work on the redo stack
C23_Witness ==
    /\ op = "press"
    /\ canvas.drawing
    /\ obs.prev_redo > 0
    /\ canvas.redo_stack = << >>
    /\ Last(canvas.undo_stack).description = "Draw"

(***************************************************************************)
(* C24: a paste that starts puts the overlay at (0,0); when a session was  *)
(* already open it is replaced (its position is reset to (0,0)); in both   *)
(* cases the buffer, the undo stack and the redo stack are unchanged.      *)
(***************************************************************************)
PasteStartsAtOrigin ==
    op' = "paste" /\ ret' =>
        /\ canvas'.paste_mode
        /\ canvas'.paste_position = <<0, 0>>
        /\ canvas'.image = canvas.image
        /\ canvas'.undo_stack = canvas.undo_stack
        /\ canvas'.redo_stack = canvas.redo_stack
        /\ canvas' = [canvas EXCEPT !.paste_mode = TRUE, !.paste_position = <<0, 0>>]

C24_BeginPaste == [][PasteStartsAtOrigin]_vars

\* a session whose overlay had been moved has been replaced
C24_Witness ==
    /\ op = "paste"
    /\ ret
    /\ obs.prev_paste.mode
    /\ obs.prev_paste.position \notin {None, <<0, 0>>}
    /\ canvas.paste_mode
    /\ canvas.paste_position = <<0, 0>>

(***************************************************************************)
(* C25: while a paste session is active a mouse press neither starts nor   *)
(* restarts the selection rectangle nor draws a pixel: it moves the paste  *)
(* overlay to the pressed cell and does nothing else.                      *)
(***************************************************************************)
PressInPasteMode ==
    op' = "press" /\ canvas.paste_mode =>
        /\ canvas'.selection_start = canvas.selection_start
        /\ canvas'.selection_end = canvas.selection_end
        /\ ~canvas'.selecting
        /\ ~canvas'.drawing
        /\ canvas'.image = canvas.image
        /\ canvas'.undo_stack = canvas.undo_stack
        /\ canvas'.redo_stack = canvas.redo_stack
        /\ canvas'.paste_position = obs'.arg
        /\ canvas'.paste_dragging
        /\ canvas'.paste_mode

C25_NoSelectionInPaste == [][PressInPasteMode]_vars

\* a press in draw mode, during a paste session, has moved the overlay and
\* drawn nothing
C25_Witness ==
    /\ op = "press"
    /\ canvas.paste_mode
    /\ canvas.paste_dragging
    /\ canvas.edit_mode = "draw"
    /\ ~canvas.drawing
    /\ canvas.selection_start = None
    /\ canvas.paste_position = <<1, 1>>
    /\ canvas.image.pix = StripA.data
    /\ canvas.undo_stack = << >>

(***************************************************************************)
(* C26: the clipboard payload does not depend on the buffer: its width,    *)
(* its height and its cells change only by a copy that succeeds, whatever  *)
(* is drawn, pasted, undone or redone in between.                          *)
(***************************************************************************)
ClipboardChangesOnlyByCopy ==
    \/ /\ canvas'.clipboard_data = canvas.clipboard_data
       /\ canvas'.clipboard_size = canvas.clipboard_size
    \/ op' = "copy" /\ ret'

C26_ClipboardIndependent == [][ClipboardChangesOnlyByCopy]_vars

\* a copied cell has been drawn over and the payload is the one copied
C26_Witness ==
    /\ op = "press"
    /\ canvas.drawing
    /\ canvas.clipboard_size = <<2, 1>>
    /\ canvas.clipboard_data = <<0, 1>>
    /\ pixelIndex(canvas.image, 0, 0) = 1

(***************************************************************************)
(* C27: character i occupies the rows from i*char_height up to, not        *)
(* including, (i+1)*char_height, for every 0 <= i < floor(height /         *)
(* char_height); these ranges are pairwise disjoint and inside the buffer. *)
(* A 16x24 strip has char_height 8 and three characters, at rows 0-7, 8-15 *)
(* and 16-23.                                                              *)
(***************************************************************************)
RowsOf(char_idx) == CharRowStart(canvas, char_idx)..(CharRowEnd(canvas, char_idx) - 1)

C27_GlyphRows ==
    canvas.image.loaded =>
        /\ OverlayCount(canvas) = canvas.image.height \div canvas.char_height
        /\ \A i \in 0..(OverlayCount(canvas) - 1) :
              /\ CharRowStart(canvas, i) = i * canvas.char_height
              /\ CharRowEnd(canvas, i) = (i + 1) * canvas.char_height
              /\ 0 <= CharRowStart(canvas, i)
              /\ CharRowEnd(canvas, i) <= canvas.image.height
              /\ \A j \in (i + 1)..(OverlayCount(canvas) - 1) :
                    CharRowEnd(canvas, i) <= CharRowStart(canvas, j)
        /\ canvas.image.width = 16 /\ canvas.image.height = 24
              => /\ canvas.char_height = 8
                 /\ OverlayCount(canvas) = 3
                 /\ RowsOf(0) = 0..7
                 /\ RowsOf(1) = 8..15
                 /\ RowsOf(2) = 16..23

\* the 16x24 strip is loaded
C27_Witness ==
    /\ op = "load"
    /\ ret
    /\ canvas.image.width = 16
    /\ canvas.image.height = 24
    /\ OverlayCount(canvas) = 3

(***************************************************************************)
(* C28: a save through the window leaves the editing session as it was:    *)
(* the file being edited, the buffer, the undo stack and the redo stack    *)
(* are the same after save_current as before it.                           *)
(***************************************************************************)
SaveKeepsSession ==
    op' = "save" /\ ret' =>
        /\ app'.current_file = app.current_file
        /\ canvas'.image = canvas.image
        /\ canvas'.undo_stack = canvas.undo_stack
        /\ canvas'.redo_stack = canvas.redo_stack

C28_SaveKeepsSession == [][SaveKeepsSession]_vars

(***************************************************************************)
(* C29: every snapshot on the undo stack and on the redo stack has the     *)
(* width and the height of the current buffer, so undo and redo never fail *)
(* on a stack that is not empty.                                           *)
(***************************************************************************)
SameDimensions(stack) ==
    \A i \in 1..Len(stack) :
        /\ stack[i].w = canvas.image.width
        /\ stack[i].h = canvas.image.height
        /\ Len(stack[i].pixel_data) = canvas.image.width * canvas.image.height

MismatchNeverTaken ==
    /\ op' = "undo" /\ canvas.undo_stack # << >> => ret'
    /\ op' = "redo" /\ canvas.redo_stack # << >> => ret'

C29_SnapshotDimensions ==
    /\ [](SameDimensions(canvas.undo_stack) /\ SameDimensions(canvas.redo_stack))
    /\ [][MismatchNeverTaken]_vars

\* both stacks hold snapshots of a strip that is not the one loaded at start
C29_Witness ==
    /\ canvas.image.width # canvas.image.height
    /\ canvas.undo_stack # << >>
    /\ canvas.redo_stack # << >>


(***************************************************************************)
(* C30  In every reachable state the undo stack and the redo stack hold    *)
(* together at most max_history snapshots: save_state leaves at most        *)
(* max_history entries on the undo stack and none on the redo stack, and    *)
(* undo and redo move one entry from one stack to the other.                *)
(***************************************************************************)
HistorySize == Len(canvas.undo_stack) + Len(canvas.redo_stack)

HistoryMoves ==
    op' \in {"undo", "redo"} => HistorySize' = HistorySize

C30_CombinedHistoryBound ==
    /\ [](HistorySize <= max_history)
    /\ [][HistoryMoves]_vars

\* a full history of which two entries have been undone
C30_Witness ==
    /\ HistorySize = max_history
    /\ Len(canvas.redo_stack) >= 2


(***************************************************************************)
(* C31  Whenever the clipboard is non-empty its payload holds exactly      *)
(* width*height indices with width >= 1 and height >= 1, so that for every *)
(* cell (dx, dy) of the clipboard the test dy*cw + dx < len(clipboard_data) *)
(* of commit_paste succeeds.                                                *)
(***************************************************************************)
ClipboardWellFormed ==
    canvas.clipboard_data # None =>
        /\ canvas.clipboard_size # None
        /\ canvas.clipboard_size[1] >= 1
        /\ canvas.clipboard_size[2] >= 1
        /\ Len(canvas.clipboard_data) =
              canvas.clipboard_size[1] * canvas.clipboard_size[2]

LengthGuardHolds ==
    canvas.clipboard_data # None /\ canvas.clipboard_size # None =>
        LET cw == canvas.clipboard_size[1]
            ch == canvas.clipboard_size[2]
        IN \A dy \in 0..(ch - 1) : \A dx \in 0..(cw - 1) :
              dy * cw + dx < Len(canvas.clipboard_data)

C31_ClipboardShape == ClipboardWellFormed /\ LengthGuardHolds

\* a rectangle reaching over the right edge of the strip has been copied and
\* its paste committed
C31_Witness ==
    /\ op = "commit_paste"
    /\ ret
    /\ canvas.clipboard_size[1] > canvas.image.width


(***************************************************************************)
(* C32  After every operation of the application (a draw press, a paste    *)
(* commit, an undo, a redo, a load) the Undo button is enabled exactly     *)
(* when the undo stack is non-empty and the Redo button exactly when the   *)
(* redo stack is non-empty.                                                 *)
(***************************************************************************)
C32_ButtonsFollowStacks ==
    /\ app.undo_btn <=> canvas.undo_stack # << >>
    /\ app.redo_btn <=> canvas.redo_stack # << >>

\* a draw press after an undo: the Redo button has been disabled again
C32_Witness ==
    /\ op = "press"
    /\ obs.prev_redo > 0
    /\ app.undo_btn
    /\ ~app.redo_btn

====
